---------------------------- MODULE Spec2Model ----------------------------
(***************************************************************************)
(* A model of go-json-parser: the position-tracked reader, the recursive   *)
(* descent parser (main.go) and the three renderers (format.go).           *)
(*                                                                         *)
(* A byte buffer is a sequence of byte values, a rune is its code point.   *)
(* Go's 0-based r.offset is kept 0-based: the byte at offset o is s[o+1].  *)
(* Every parser method takes the buffer s and the reader state r and       *)
(* returns its Go results together with the reader state it leaves.        *)
(***************************************************************************)
EXTENDS Integers, Sequences, FiniteSets, TLC

VARIABLES
    input,   \* the file's bytes, b in run()
    pc,      \* where run() is: "start", "parsed", "failed", "printed", "panic"
    res,     \* what p.parse() returned, with the reader it left behind
    mode,    \* the -mode flag run() switched on
    width,   \* the indent argument of pretty
    out,     \* the text run() printed
    prev,    \* the text of the previous run, when its output was fed back
    round,   \* how many times an output was fed back as the next input
    gen      \* how the input text was drawn (family, tree, defect)

vars == <<input, pc, res, mode, width, out, prev, round, gen>>

---------------------------------------------------------------------------
(* Runes.                                                                  *)

Rune(c) ==
    CASE c = "{" -> 123 [] c = "}" -> 125 [] c = "[" -> 91 [] c = "]" -> 93
      [] c = "," -> 44  [] c = ":" -> 58  [] c = "q" -> 34 [] c = "\\" -> 92
      [] c = "/" -> 47  [] c = "-" -> 45  [] c = "+" -> 43 [] c = "." -> 46
      [] c = " " -> 32  [] c = "HT" -> 9  [] c = "LF" -> 10 [] c = "CR" -> 13
      [] c = "0" -> 48  [] c = "1" -> 49  [] c = "2" -> 50 [] c = "3" -> 51
      [] c = "4" -> 52  [] c = "9" -> 57
      [] c = "a" -> 97  [] c = "b" -> 98  [] c = "c" -> 99 [] c = "d" -> 100
      [] c = "e" -> 101 [] c = "f" -> 102 [] c = "g" -> 103 [] c = "i" -> 105
      [] c = "j" -> 106 [] c = "k" -> 107 [] c = "l" -> 108 [] c = "m" -> 109
      [] c = "n" -> 110 [] c = "o" -> 111 [] c = "r" -> 114 [] c = "s" -> 115
      [] c = "t" -> 116 [] c = "u" -> 117 [] c = "v" -> 118 [] c = "y" -> 121
      [] c = "A" -> 65  [] c = "E" -> 69  [] c = "F" -> 70
      [] c = "%" -> 37  [] c = "!" -> 33  [] c = "(" -> 40 [] c = ")" -> 41
      [] c = "<" -> 60  [] c = ">" -> 62

\* The bytes of a text written one character per element ("q" is the quote).
Text(cs) == [i \in DOMAIN cs |-> Rune(cs[i])]

RECURSIVE Repeat(_, _)
Repeat(c, n) == IF n <= 0 THEN <<>> ELSE <<c>> \o Repeat(c, n - 1)

---------------------------------------------------------------------------
(* type elementKind, type jsonElement, type pair                           *)

objectKind == 1
arrayKind == 2
stringKind == 3
numberKind == 4
booleanKind == 5
nullKind == 6

Nil == "nil"

Element(k, v) == [kind |-> k, value |-> v]
Pair(k, v) == [key |-> k, value |-> v]

kindString(k) ==
    CASE k = objectKind -> Text(<<"o","b","j","e","c","t">>)
      [] k = arrayKind -> Text(<<"a","r","r","a","y">>)
      [] k = stringKind -> Text(<<"s","t","r","i","n","g">>)
      [] k = numberKind -> Text(<<"n","u","m","b","e","r">>)
      [] k = booleanKind -> Text(<<"b","o","o","l","e","a","n">>)
      [] k = nullKind -> Text(<<"n","u","l","l">>)

---------------------------------------------------------------------------
(* type reader                                                             *)

RuneError == 65533

newReader == [offset |-> 0, line |-> 1, col |-> 0]

isEOF(s, r) == r.offset >= Len(s)

\* unicode/utf8.DecodeRune on the bytes p: the rune and its width, and
\* (RuneError, 1) for an encoding that is not well formed.
DecodeRune(p) ==
    LET n == Len(p)
        bad == [v |-> RuneError, size |-> 1]
        cont(b) == b >= 128 /\ b <= 191
        p0 == p[1]
    IN  IF n < 1 THEN [v |-> RuneError, size |-> 0]
        ELSE IF p0 < 128 THEN [v |-> p0, size |-> 1]
        ELSE IF p0 >= 194 /\ p0 <= 223 THEN
            IF n >= 2 /\ cont(p[2])
            THEN [v |-> (p0 % 32) * 64 + (p[2] % 64), size |-> 2]
            ELSE bad
        ELSE IF p0 >= 224 /\ p0 <= 239 THEN
            LET lo == IF p0 = 224 THEN 160 ELSE 128
                hi == IF p0 = 237 THEN 159 ELSE 191
            IN  IF n >= 3 /\ p[2] >= lo /\ p[2] <= hi /\ cont(p[3])
                THEN [v |-> (p0 % 16) * 4096 + (p[2] % 64) * 64 + (p[3] % 64),
                      size |-> 3]
                ELSE bad
        ELSE IF p0 >= 240 /\ p0 <= 244 THEN
            LET lo == IF p0 = 240 THEN 144 ELSE 128
                hi == IF p0 = 244 THEN 143 ELSE 191
            IN  IF n >= 4 /\ p[2] >= lo /\ p[2] <= hi /\ cont(p[3]) /\ cont(p[4])
                THEN [v |-> (p0 % 8) * 262144 + (p[2] % 64) * 4096
                              + (p[3] % 64) * 64 + (p[4] % 64),
                      size |-> 4]
                ELSE bad
        ELSE bad

peek(s, r) ==
    IF isEOF(s, r) THEN [v |-> 0, size |-> 0]
    ELSE LET b == s[r.offset + 1]
         IN  IF b >= 128
             THEN LET d == DecodeRune(SubSeq(s, r.offset + 1, Len(s)))
                  IN  IF d.v = RuneError /\ d.size = 1
                      THEN [v |-> b, size |-> 1]
                      ELSE d
             ELSE [v |-> b, size |-> 1]

\* read returns the rune (v) and the reader it leaves (r); p is what peek
\* returned.
read_advance(s, r, p) ==
    IF isEOF(s, r) THEN [v |-> p.v, r |-> r]
    ELSE [v |-> p.v,
          r |-> [offset |-> r.offset + p.size,
                 line |-> IF p.v = 10 THEN r.line + 1 ELSE r.line,
                 col |-> IF p.v = 10 THEN 0 ELSE r.col + 1]]

read(s, r) == read_advance(s, r, peek(s, r))

---------------------------------------------------------------------------
(* type parser. A step that follows a call takes the call's result as its  *)
(* last parameter: rd is what read returned, and so on.                    *)

\* isWhitespace without the carriage return.
isWhitespace_noCR(c) == c \in {32, 9, 10}

isWhitespace(c) == c \in {32, 9, 10, 13}

\* isSpecialCharacter with the bound one digit short.
isSpecialCharacter_upTo3(c) == c >= 0 /\ c <= 3

isSpecialCharacter(c) == c >= 0 /\ c <= 31

isNaturalDigit(c) == c >= 49 /\ c <= 57

isDigit(c) == c >= 48 /\ c <= 57

isHex(c) == isDigit(c) \/ (c >= 97 /\ c <= 102) \/ (c >= 65 /\ c <= 70)

\* A syntax error: what syntaxError formats is the reader's line and column.
syntaxError(r) == [el |-> Nil, err |-> TRUE, line |-> r.line, col |-> r.col, r |-> r]

expectedError(r) == syntaxError(r)

\* A result without error.
Ok(el, r) == [el |-> el, err |-> FALSE, r |-> r]

RECURSIVE eatWhitespace(_, _)
eatWhitespace(s, r) ==
    IF isEOF(s, r) THEN r
    ELSE IF ~isWhitespace(peek(s, r).v) THEN r
    ELSE eatWhitespace(s, read(s, r).r)

\* match reads the runes of lit one by one; ok is false at the first mismatch.
RECURSIVE match(_, _, _)

match_rune(s, lit, rd) ==
    IF rd.v # Head(lit) THEN [ok |-> FALSE, r |-> rd.r]
    ELSE match(s, rd.r, Tail(lit))

match(s, r, lit) ==
    IF lit = <<>> THEN [ok |-> TRUE, r |-> r]
    ELSE match_rune(s, lit, read(s, r))

---------------------------------------------------------------------------
(* type parser: strings                                                    *)

\* The four reads of a \u escape: the first rune that is no hexadecimal
\* digit is an error (a read at end of input returns rune 0).
RECURSIVE readHex(_, _, _)

readHex_digit(s, n, rd) ==
    IF ~isHex(rd.v) THEN [err |-> TRUE, r |-> rd.r]
    ELSE readHex(s, rd.r, n - 1)

readHex(s, r, n) ==
    IF n = 0 THEN [err |-> FALSE, r |-> r]
    ELSE readHex_digit(s, n, read(s, r))

\* What follows the loop of parseRawString: the bytes from start up to, and
\* without, the last byte read.
parseRawString_end(s, r, start) ==
    IF start = r.offset THEN syntaxError(r)
    ELSE Ok(SubSeq(s, start + 1, r.offset - 1), r)

RECURSIVE parseRawString_loop(_, _, _, _)

\* case 'u', h being what the four reads returned
parseRawString_hex(s, start, h) ==
    IF h.err THEN expectedError(h.r)
    ELSE parseRawString_loop(s, h.r, FALSE, start)

\* The body of parseRawString's loop after r := p.r.read().
parseRawString_rune(s, escape, start, rd) ==
    IF ~escape /\ rd.v = 34 THEN parseRawString_end(s, rd.r, start)
    ELSE IF ~escape /\ isSpecialCharacter(rd.v) THEN syntaxError(rd.r)
    ELSE IF escape THEN
        IF rd.v \in {34, 92, 47, 98, 102, 110, 114, 116}
        THEN parseRawString_loop(s, rd.r, FALSE, start)
        ELSE IF rd.v = 117
        THEN parseRawString_hex(s, start, readHex(s, rd.r, 4))
        ELSE syntaxError(rd.r)
    ELSE parseRawString_loop(s, rd.r, rd.v = 92, start)

\* The loop of parseRawString, entered with the reader r and the flag escape.
parseRawString_loop(s, r, escape, start) ==
    IF isEOF(s, r) THEN parseRawString_end(s, r, start)
    ELSE parseRawString_rune(s, escape, start, read(s, r))

\* Called with the opening quote already read; el is the raw byte slice.
parseRawString(s, r) ==
    IF peek(s, r).v = 34 THEN Ok(<<>>, read(s, r).r)
    ELSE parseRawString_loop(s, r, FALSE, r.offset)

parseString_raw(raw) ==
    IF raw.err THEN raw
    ELSE Ok(Element(stringKind, raw.el), raw.r)

parseString(s, r) == parseString_raw(parseRawString(s, r))

---------------------------------------------------------------------------
(* type parser: numbers                                                    *)

\* The loop shared by parseInteger, parseFraction and parseExponent: reads
\* digits into sb; hasDigit tells whether one was read.
RECURSIVE readDigits(_, _, _, _)

readDigits_write(s, sb, rd) == readDigits(s, rd.r, Append(sb, rd.v), TRUE)

readDigits(s, r, sb, hasDigit) ==
    IF isEOF(s, r) THEN [sb |-> sb, r |-> r, hasDigit |-> hasDigit]
    ELSE IF ~isDigit(peek(s, r).v) THEN [sb |-> sb, r |-> r, hasDigit |-> hasDigit]
    ELSE readDigits_write(s, sb, read(s, r))

\* The number parsers return err, the builder sb and the reader r.
parseInteger_result(d) == [err |-> FALSE, sb |-> d.sb, r |-> d.r]

\* if start != '0' { ... }
parseInteger_digits(s, r, start, sb) ==
    IF start # 48 THEN parseInteger_result(readDigits(s, r, sb, FALSE))
    ELSE [err |-> FALSE, sb |-> sb, r |-> r]

\* if start == '-' { r := p.r.read(); ... }
parseInteger_minus(s, start, sb, rd) ==
    IF rd.v = 48 THEN [err |-> FALSE, sb |-> Append(sb, rd.v), r |-> rd.r]
    ELSE IF ~isNaturalDigit(rd.v) THEN [err |-> TRUE, sb |-> sb, r |-> rd.r]
    ELSE parseInteger_digits(s, rd.r, start, Append(sb, rd.v))

parseInteger(s, r, start, sb) ==
    IF start = 45 THEN parseInteger_minus(s, start, sb, read(s, r))
    ELSE parseInteger_digits(s, r, start, sb)

\* parseFraction's return without the hasDigit check.
parseFraction_noDigitCheck(d) == [err |-> FALSE, sb |-> d.sb, r |-> d.r]

\* if !hasDigit { return error }; return nil
parseFraction_result(d) == [err |-> ~d.hasDigit, sb |-> d.sb, r |-> d.r]

parseFraction(s, r, sb) ==
    IF peek(s, r).v = 46
    THEN parseFraction_result(readDigits(s, read(s, r).r, Append(sb, 46), FALSE))
    ELSE [err |-> FALSE, sb |-> sb, r |-> r]

parseExponent_result(d) == [err |-> ~d.hasDigit, sb |-> d.sb, r |-> d.r]

\* r, _ = p.r.peek(); if r == '+' || r == '-' { ... }, c being that rune
parseExponent_sign(s, r, sb, c) ==
    IF c = 43 \/ c = 45
    THEN parseExponent_result(readDigits(s, read(s, r).r, Append(sb, c), FALSE))
    ELSE parseExponent_result(readDigits(s, r, sb, FALSE))

\* if r == 'e' || r == 'E' { ... }, c being the rune peeked
parseExponent_e(s, r, sb, c) ==
    IF c = 101 \/ c = 69
    THEN parseExponent_sign(s, read(s, r).r, Append(sb, c), peek(s, read(s, r).r).v)
    ELSE [err |-> FALSE, sb |-> sb, r |-> r]

parseExponent(s, r, sb) == parseExponent_e(s, r, sb, peek(s, r).v)

parseNumber_exponent(e) ==
    IF e.err THEN syntaxError(e.r)
    ELSE Ok(Element(numberKind, e.sb), e.r)

parseNumber_fraction(s, f) ==
    IF f.err THEN syntaxError(f.r)
    ELSE parseNumber_exponent(parseExponent(s, f.r, f.sb))

parseNumber_integer(s, i) ==
    IF i.err THEN expectedError(i.r)
    ELSE parseNumber_fraction(s, parseFraction(s, i.r, i.sb))

\* Called with the rune start already read.
parseNumber(s, r, start) == parseNumber_integer(s, parseInteger(s, r, start, <<start>>))

---------------------------------------------------------------------------
(* type parser: literals                                                   *)

\* ok, expected, got := p.match(...); if ok { ... }, m being match's result
parseBool_matched(m, value) ==
    IF m.ok THEN Ok(Element(booleanKind, value), m.r)
    ELSE expectedError(m.r)

parseBool(s, r, start) ==
    IF start = 116
    THEN parseBool_matched(match(s, r, Text(<<"r","u","e">>)), TRUE)
    ELSE parseBool_matched(match(s, r, Text(<<"a","l","s","e">>)), FALSE)

parseNull_matched(m) ==
    IF m.ok THEN Ok(Element(nullKind, Nil), m.r)
    ELSE expectedError(m.r)

parseNull(s, r) == parseNull_matched(match(s, r, Text(<<"u","l","l">>)))

---------------------------------------------------------------------------
(* type parser: values, objects, arrays                                    *)

RECURSIVE parseValue(_, _)
RECURSIVE parseObject_loop(_, _, _)
RECURSIVE parseArray_loop(_, _, _)

\* parseMember returns the pair as el; isNil tells the (nil, nil) return.
parseMember_value(s, key, val) ==
    IF val.err THEN val
    ELSE [el |-> Pair(key, val.el), isNil |-> FALSE,
          err |-> FALSE, r |-> eatWhitespace(s, val.r)]

\* if r = p.r.read(); r != ':' { ... }
parseMember_colon(s, key, rd) ==
    IF rd.v # 58 THEN expectedError(rd.r)
    ELSE parseMember_value(s, key, parseValue(s, eatWhitespace(s, rd.r)))

\* key, err := p.parseRawString(); if err != nil { ... }
parseMember_key(s, key) ==
    IF key.err THEN key
    ELSE parseMember_colon(s, key.el, read(s, eatWhitespace(s, key.r)))

parseMember(s, r) ==
    IF peek(s, r).v # 34 THEN [el |-> Nil, isNil |-> TRUE, err |-> FALSE, r |-> r]
    ELSE parseMember_key(s, parseRawString(s, read(s, r).r))

\* if r := p.r.read(); r != '}' { ... }
parseObject_close(members, rd) ==
    IF rd.v # 125 THEN expectedError(rd.r)
    ELSE Ok(Element(objectKind, members), rd.r)

\* What follows the loop of parseObject.
parseObject_end(s, r, members) == parseObject_close(members, read(s, r))

\* parseObject's round with a nil member ending the loop after a comma too.
parseObject_append_lenient(s, members, member) ==
    IF member.err THEN member
    ELSE IF member.isNil THEN parseObject_end(s, member.r, members)
    ELSE parseObject_loop(s, member.r, Append(members, member.el))

\* parseObject's round with the member put before the earlier ones.
parseObject_append_first(s, members, member) ==
    IF member.err THEN member
    ELSE IF member.isNil /\ Len(members) # 0 THEN syntaxError(member.r)
    ELSE IF member.isNil THEN parseObject_end(s, member.r, members)
    ELSE parseObject_loop(s, member.r, <<member.el>> \o members)

\* member, err := p.parseMember() and the rest of the loop's body
parseObject_append(s, members, member) ==
    IF member.err THEN member
    ELSE IF member.isNil /\ Len(members) # 0 THEN syntaxError(member.r)
    ELSE IF member.isNil THEN parseObject_end(s, member.r, members)
    ELSE parseObject_loop(s, member.r, Append(members, member.el))

\* if len(members) != 0 { r := p.r.read(); if r != ',' { ... } ... }
parseObject_comma(s, members, rd) ==
    IF rd.v # 44 THEN expectedError(rd.r)
    ELSE parseObject_append(s, members, parseMember(s, eatWhitespace(s, rd.r)))

parseObject_loop(s, r, members) ==
    IF isEOF(s, r) THEN parseObject_end(s, r, members)
    ELSE IF peek(s, r).v = 125 THEN parseObject_end(s, r, members)
    ELSE IF Len(members) # 0 THEN parseObject_comma(s, members, read(s, r))
    ELSE parseObject_append(s, members, parseMember(s, r))

\* Called with the opening brace already read.
parseObject(s, r) == parseObject_loop(s, eatWhitespace(s, r), <<>>)

\* if r := p.r.read(); r != ']' { ... }
parseArray_close(elements, rd) ==
    IF rd.v # 93 THEN expectedError(rd.r)
    ELSE Ok(Element(arrayKind, elements), rd.r)

\* What follows the loop of parseArray.
parseArray_end(s, r, elements) == parseArray_close(elements, read(s, eatWhitespace(s, r)))

\* el, err := p.parseValue() and the rest of the loop's body
parseArray_append(s, elements, el) ==
    IF el.err THEN el
    ELSE parseArray_loop(s, eatWhitespace(s, el.r), Append(elements, el.el))

\* if len(elements) != 0 { r := p.r.read(); if r != ',' { ... } ... }
parseArray_comma(s, elements, rd) ==
    IF rd.v # 44 THEN expectedError(rd.r)
    ELSE parseArray_append(s, elements, parseValue(s, eatWhitespace(s, rd.r)))

parseArray_loop(s, r, elements) ==
    IF isEOF(s, r) THEN parseArray_end(s, r, elements)
    ELSE IF peek(s, r).v = 93 THEN parseArray_end(s, r, elements)
    ELSE IF Len(elements) # 0 THEN parseArray_comma(s, elements, read(s, r))
    ELSE parseArray_append(s, elements, parseValue(s, r))

\* Called with the opening bracket already read.
parseArray(s, r) == parseArray_loop(s, eatWhitespace(s, r), <<>>)

\* switch r { ... }, rd being what p.r.read() returned
parseValue_switch(s, rd) ==
    CASE rd.v = 123 -> parseObject(s, rd.r)
      [] rd.v = 91 -> parseArray(s, rd.r)
      [] rd.v = 34 -> parseString(s, rd.r)
      [] rd.v = 45 \/ isDigit(rd.v) -> parseNumber(s, rd.r, rd.v)
      [] rd.v = 116 \/ rd.v = 102 -> parseBool(s, rd.r, rd.v)
      [] rd.v = 110 -> parseNull(s, rd.r)
      [] OTHER -> syntaxError(rd.r)

parseValue(s, r) == parseValue_switch(s, read(s, r))

\* p.eatWhitespace(); if !p.r.isEOF() { ... }; return root, nil
parseRoot_eof(s, el, r) ==
    IF ~isEOF(s, r) THEN expectedError(read(s, r).r)
    ELSE Ok(el, r)

\* root, err := p.parseValue(); if err != nil { ... }
parseRoot_value(s, root) ==
    IF root.err THEN root
    ELSE parseRoot_eof(s, root.el, eatWhitespace(s, root.r))

parseRoot(s, r) == parseRoot_value(s, parseValue(s, eatWhitespace(s, r)))

\* newParser(s).parse()
parse(s) == parseRoot(s, newReader)

---------
(* format.go: fmt.Sprintf of an element's value                            *)

\* fmt.Sprintf("%v", v) of a bool.
formatBool(v) ==
    IF v THEN Text(<<"t","r","u","e">>) ELSE Text(<<"f","a","l","s","e">>)

\* fmt.Sprintf("%s", e.value): the bytes of a string, the text of a number,
\* and %!s(<nil>) for the nil value of a null element.
formatString(e) ==
    IF e.kind = nullKind
    THEN Text(<<"%","!","s","(","<","n","i","l",">",")">>)
    ELSE e.value

---------------------------------------------------------------------------
(* format.go: astToString. The walk's state st is the builder sb and the   *)
(* captured counter indent.                                                *)

astToString_write(str, st) ==
    [st EXCEPT !.sb = st.sb \o Repeat(32, st.indent) \o str]

RECURSIVE astToString_walk(_, _)
RECURSIVE astToString_elements(_, _, _)
RECURSIVE astToString_pairs(_, _, _)

\* for _, el := range v { walk(el) }, from index i on
astToString_elements(v, i, st) ==
    IF i > Len(v) THEN st
    ELSE astToString_elements(v, i + 1, astToString_walk(v[i], st))

\* for _, p := range v { ... }, from index i on
astToString_pairs(v, i, st) ==
    IF i > Len(v) THEN st
    ELSE LET s1 == astToString_write(Text(<<"k","e","y",":">>), st)
             s2 == [s1 EXCEPT !.sb = s1.sb \o v[i].key \o <<10>>]
             s3 == astToString_write(Text(<<"v","a","l","u","e",":"," ">>), s2)
             s4 == [s3 EXCEPT !.sb = s3.sb \o <<10>>, !.indent = s3.indent + 1]
             s5 == astToString_walk(v[i].value, s4)
             s6 == [s5 EXCEPT !.indent = s5.indent - 1]
         IN  astToString_pairs(v, i + 1, s6)

\* The indent-- that ends walk.
astToString_leave(e, st) ==
    IF e.kind = objectKind THEN [st EXCEPT !.indent = st.indent - 1] ELSE st

astToString_walk(e, st) ==
    LET s1 == astToString_write(kindString(e.kind), st)
        s2 == [s1 EXCEPT !.sb = s1.sb \o <<58>>]
        s3 == IF e.kind = objectKind \/ e.kind = arrayKind
              THEN [s2 EXCEPT !.indent = s2.indent + 1, !.sb = s2.sb \o <<10>>]
              ELSE s2
        s4 == CASE e.kind = arrayKind -> astToString_elements(e.value, 1, s3)
                [] e.kind = objectKind -> astToString_pairs(e.value, 1, s3)
                [] e.kind = booleanKind ->
                       [s3 EXCEPT !.sb = s3.sb \o formatBool(e.value)]
                [] OTHER -> [s3 EXCEPT !.sb = s3.sb \o formatString(e)]
        s5 == [s4 EXCEPT !.sb = s4.sb \o <<10>>]
    IN  astToString_leave(e, s5)

astToString(el) == astToString_walk(el, [sb |-> <<>>, indent |-> 0]).sb

---------------------------------------------------------------------------
(* format.go: minify. The walk's state is the builder sb.                  *)

RECURSIVE minify_walk(_, _)
RECURSIVE minify_elements(_, _, _)
RECURSIVE minify_pairs(_, _, _)

\* if i != len(val)-1 { sb.WriteRune(',') }, with i counted from 1
minify_comma(val, i, sb) == IF i # Len(val) THEN sb \o <<44>> ELSE sb

minify_elements(val, i, sb) ==
    IF i > Len(val) THEN sb
    ELSE minify_elements(val, i + 1, minify_comma(val, i, minify_walk(val[i], sb)))

minify_pairs(val, i, sb) ==
    IF i > Len(val) THEN sb
    ELSE LET s1 == sb \o <<34>> \o val[i].key \o <<34, 58>>
             s2 == minify_walk(val[i].value, s1)
         IN  minify_pairs(val, i + 1, minify_comma(val, i, s2))

minify_walk(e, sb) ==
    LET s1 == IF e.kind = objectKind THEN sb \o <<123>>
              ELSE IF e.kind = arrayKind THEN sb \o <<91>>
              ELSE sb
        s2 == CASE e.kind = arrayKind -> minify_elements(e.value, 1, s1)
                [] e.kind = objectKind -> minify_pairs(e.value, 1, s1)
                [] e.kind = stringKind -> s1 \o <<34>> \o e.value \o <<34>>
                [] e.kind = numberKind -> s1 \o formatString(e)
                [] e.kind = booleanKind -> s1 \o formatBool(e.value)
                [] e.kind = nullKind -> s1 \o Text(<<"n","u","l","l">>)
    IN  IF e.kind = objectKind THEN s2 \o <<125>>
        ELSE IF e.kind = arrayKind THEN s2 \o <<93>>
        ELSE s2

minify(e) == minify_walk(e, <<>>)

---------------------------------------------------------------------------
(* format.go: pretty. The walk's state st is the builder sb and the        *)
(* captured lvl and ignoreLvl.                                             *)

pretty_write(str, indent, st) ==
    [sb |-> (IF ~st.ignoreLvl
             THEN st.sb \o Repeat(32, st.lvl * indent)
             ELSE st.sb \o <<32>>) \o str,
     lvl |-> st.lvl,
     ignoreLvl |-> FALSE]

RECURSIVE pretty_walk(_, _, _)
RECURSIVE pretty_elements(_, _, _, _)
RECURSIVE pretty_pairs(_, _, _, _)

\* pretty's separator with the comma after the last child too.
pretty_comma_always(val, i, st) ==
    [st EXCEPT !.sb = st.sb \o <<44, 10>>]

\* if i != len(val)-1 { sb.WriteRune(',') }; sb.WriteRune('\n')
pretty_comma(val, i, st) ==
    [st EXCEPT !.sb = (IF i # Len(val) THEN st.sb \o <<44>> ELSE st.sb) \o <<10>>]

pretty_elements(val, i, indent, st) ==
    IF i > Len(val) THEN st
    ELSE pretty_elements(val, i + 1, indent,
                         pretty_comma(val, i, pretty_walk(val[i], indent, st)))

pretty_pairs(val, i, indent, st) ==
    IF i > Len(val) THEN st
    ELSE LET s1 == pretty_write(<<34>>, indent, st)
             s2 == [s1 EXCEPT !.sb = s1.sb \o val[i].key \o <<34, 58>>,
                              !.ignoreLvl = TRUE]
             s3 == pretty_walk(val[i].value, indent, s2)
         IN  pretty_pairs(val, i + 1, indent, pretty_comma(val, i, s3))

\* case arrayKind (open = '[', close = ']') and case objectKind of walk
pretty_container(e, indent, st, open, close) ==
    LET s1 == pretty_write(<<open>>, indent, st)
    IN  IF Len(e.value) = 0 THEN [s1 EXCEPT !.sb = s1.sb \o <<close>>]
        ELSE LET s2 == [s1 EXCEPT !.sb = s1.sb \o <<10>>, !.lvl = s1.lvl + 1]
                 s3 == IF e.kind = arrayKind
                       THEN pretty_elements(e.value, 1, indent, s2)
                       ELSE pretty_pairs(e.value, 1, indent, s2)
                 s4 == [s3 EXCEPT !.lvl = s3.lvl - 1]
             IN  pretty_write(<<close>>, indent, s4)

pretty_walk(e, indent, st) ==
    CASE e.kind = arrayKind -> pretty_container(e, indent, st, 91, 93)
      [] e.kind = objectKind -> pretty_container(e, indent, st, 123, 125)
      [] e.kind = stringKind ->
             LET s1 == pretty_write(<<34>>, indent, st)
             IN  [s1 EXCEPT !.sb = s1.sb \o e.value \o <<34>>]
      [] e.kind = numberKind -> pretty_write(formatString(e), indent, st)
      [] e.kind = booleanKind -> pretty_write(formatBool(e.value), indent, st)
      [] e.kind = nullKind -> pretty_write(Text(<<"n","u","l","l">>), indent, st)

pretty(e, indent) ==
    pretty_walk(e, indent, [sb |-> <<>>, lvl |-> 0, ignoreLvl |-> FALSE]).sb

---------------------------------------------------------------------------
(* The input texts. A run starts from a text of one of five families:      *)
(*   num     every text over NumAlphabet up to MaxNumLen bytes             *)
(*   str     a quote followed by every text over StrAlphabet up to         *)
(*           MaxStrLen bytes                                               *)
(*   blank   every text of whitespace up to MaxBlankLen bytes              *)
(*   tree    the serialization of an element tree of up to MaxNodes nodes, *)
(*           with one whitespace filler at every place the grammar allows  *)
(*           whitespace, and at most one defect planted in it              *)
(*   example the texts the documentation names                             *)

MaxNumLen == 5
MaxStrLen == 6
MaxBlankLen == 2
MaxNodes == 3
MaxIndent == 2
MaxRounds == 1

\* All sequences over A of length at most n.
Seqs(A, n) == UNION {[1..k -> A] : k \in 0..n}

NumAlphabet == {45, 48, 49, 46, 101, 43}

StrAlphabet == {34, 92, 117, 48, 10}

BlankAlphabet == {32, 9, 10, 13}

Scalars ==
    { Element(numberKind, <<49>>),
      Element(stringKind, <<195, 169>>),
      Element(booleanKind, TRUE),
      Element(booleanKind, FALSE),
      Element(nullKind, Nil) }

Keys == { <<97>>, <<98>> }

WsChoices == { <<>>, <<32>>, <<9, 13, 10>> }

Defects == {"trailing", "leading", "missing"}

IsContainer(e) == e.kind = objectKind \/ e.kind = arrayKind

\* The i-th child element of a container.
Child(e, i) == IF e.kind = objectKind THEN e.value[i].value ELSE e.value[i]

RECURSIVE TreesOfSize(_)
RECURSIVE Forests(_)

\* The sequences of trees with n nodes in all.
Forests(n) ==
    IF n = 0 THEN {<<>>}
    ELSE UNION { { <<t>> \o f : t \in TreesOfSize(j), f \in Forests(n - j) }
                 : j \in 1..n }

\* The element trees with exactly n nodes.
TreesOfSize(n) ==
    (IF n = 1 THEN Scalars ELSE {})
    \cup { Element(arrayKind, f) : f \in Forests(n - 1) }
    \cup UNION { { Element(objectKind, [i \in DOMAIN f |-> Pair(ks[i], f[i])])
                   : ks \in [DOMAIN f -> Keys] }
                 : f \in Forests(n - 1) }

Trees == UNION { TreesOfSize(n) : n \in 1..MaxNodes }

\* Whether defect d can be planted in container e: a trailing comma needs a
\* member before it, a missing comma two members that do not read as one
\* number when they touch.
Applies(e, d) ==
    /\ IsContainer(e)
    /\ d = "trailing" => Len(e.value) >= 1
    /\ d = "missing" =>
          /\ Len(e.value) >= 2
          /\ ~ /\ e.kind = arrayKind
               /\ e.value[Len(e.value) - 1].kind = numberKind
               /\ e.value[Len(e.value)].kind = numberKind

\* The paths (child indices from the root) to the containers d applies to.
RECURSIVE DefectPaths(_, _)
DefectPaths(e, d) ==
    IF ~IsContainer(e) THEN {}
    ELSE (IF Applies(e, d) THEN {<<>>} ELSE {})
         \cup UNION { { <<i>> \o p : p \in DefectPaths(Child(e, i), d) }
                      : i \in DOMAIN e.value }

\* The text of tree e with ws at every place whitespace may stand (but not
\* around the root) and defect d planted in the container at path.
RECURSIVE Serialize(_, _, _, _)
RECURSIVE SerializeMembers(_, _, _, _, _, _)

SerializeMembers(e, i, ws, d, path, here) ==
    IF i > Len(e.value) THEN <<>>
    ELSE LET sub == path # <<>> /\ Head(path) = i
             val == Serialize(Child(e, i), ws,
                              IF sub THEN d ELSE "none",
                              IF sub THEN Tail(path) ELSE <<>>)
             member == IF e.kind = objectKind
                       THEN <<34>> \o e.value[i].key \o <<34>> \o ws \o <<58>> \o ws \o val
                       ELSE val
             sep == IF i = Len(e.value) THEN <<>>
                    ELSE IF here = "missing" /\ i = Len(e.value) - 1 THEN ws
                    ELSE ws \o <<44>> \o ws
         IN  member \o sep \o SerializeMembers(e, i + 1, ws, d, path, here)

Serialize(e, ws, d, path) ==
    CASE e.kind = stringKind -> <<34>> \o e.value \o <<34>>
      [] e.kind = numberKind -> e.value
      [] e.kind = booleanKind -> formatBool(e.value)
      [] e.kind = nullKind -> Text(<<"n","u","l","l">>)
      [] OTHER ->
             LET here == IF path = <<>> THEN d ELSE "none"
                 open == IF e.kind = objectKind THEN 123 ELSE 91
                 close == IF e.kind = objectKind THEN 125 ELSE 93
             IN  <<open>> \o ws
                 \o (IF here = "leading" THEN <<44>> \o ws ELSE <<>>)
                 \o SerializeMembers(e, 1, ws, d, path, here)
                 \o (IF Len(e.value) > 0 THEN ws ELSE <<>>)
                 \o (IF here = "trailing" THEN <<44>> \o ws ELSE <<>>)
                 \o <<close>>

\* The canonical text of a tree.
Canonical(e) == Serialize(e, <<>>, "none", <<>>)

NumInputs == { [text |-> x, gen |-> [family |-> "num"]] : x \in Seqs(NumAlphabet, MaxNumLen) }

StrInputs ==
    { [text |-> <<34>> \o x, gen |-> [family |-> "str"]] : x \in Seqs(StrAlphabet, MaxStrLen) }

BlankInputs ==
    { [text |-> x, gen |-> [family |-> "blank"]] : x \in Seqs(BlankAlphabet, MaxBlankLen) }

\* A tree's text: valid, or with one defect in one container, or followed by
\* a closing bracket that belongs to nothing.
TreeInputs ==
    UNION { UNION {
        { [text |-> ws \o Serialize(t, ws, "none", <<>>) \o ws,
           gen |-> [family |-> "tree", tree |-> t, ws |-> ws, defect |-> "none"]],
          [text |-> ws \o Serialize(t, ws, "none", <<>>) \o ws \o <<93>>,
           gen |-> [family |-> "tree", tree |-> t, ws |-> ws, defect |-> "garbage"]] }
        \cup UNION { { [text |-> ws \o Serialize(t, ws, d, p) \o ws,
                        gen |-> [family |-> "tree", tree |-> t, ws |-> ws, defect |-> d]]
                       : p \in DefectPaths(t, d) } : d \in Defects }
        : ws \in WsChoices } : t \in Trees }

ExampleTexts ==
    { Text(<<"[","1",",","2",",","3","]">>),
      Text(<<"{","}">>),
      Text(<<"{","q","a","q",":","1",",","}">>),
      Text(<<"{","q","a","q",":","1",",","q","a","q",":","2","}">>),
      Text(<<"{","q","a","q",":"," ","q","b","\\","q","c","q","}">>),
      Text(<<"0","1">>), Text(<<"-","0">>), Text(<<"1",".">>), Text(<<"1","e">>),
      Text(<<"1",".","2","e","+","3">>),
      Text(<<"q","a","LF","q">>),
      Text(<<"q","a","b","c">>),
      Text(<<"[","[","]",",","1","]">>),
      Text(<<"[","1",",","[","]","]">>) }

ExampleInputs == { [text |-> x, gen |-> [family |-> "example"]] : x \in ExampleTexts }

---------------------------------------------------------------------------
(* run(): the file is read, parsed, and printed in the mode asked for.     *)

Start(inputs) ==
    \E i \in inputs :
        /\ input = i.text
        /\ gen = i.gen
        /\ pc = "start"
        /\ res = Nil
        /\ mode = Nil
        /\ width = 0
        /\ out = <<>>
        /\ prev = <<>>
        /\ round = 0

Init == Start(NumInputs \cup StrInputs \cup BlankInputs \cup TreeInputs \cup ExampleInputs)

\* json, err := p.parse(); if err != nil { return err }
Parse ==
    /\ pc = "start"
    /\ res' = parse(input)
    /\ pc' = IF res'.err THEN "failed" ELSE "parsed"
    /\ UNCHANGED <<input, mode, width, out, prev, round, gen>>

\* case "ast"
PrintAst ==
    /\ pc = "parsed"
    /\ mode' = "ast"
    /\ out' = astToString(res.el)
    /\ pc' = "printed"
    /\ UNCHANGED <<input, res, width, prev, round, gen>>

\* case "pretty": run passes 2; pretty takes any width
PrintPretty ==
    /\ pc = "parsed"
    /\ \E n \in 0..MaxIndent :
        /\ width' = n
        /\ out' = pretty(res.el, n)
    /\ mode' = "pretty"
    /\ pc' = "printed"
    /\ UNCHANGED <<input, res, prev, round, gen>>

\* case "minify"
PrintMinify ==
    /\ pc = "parsed"
    /\ mode' = "minify"
    /\ out' = minify(res.el)
    /\ pc' = "printed"
    /\ UNCHANGED <<input, res, width, prev, round, gen>>

\* default: panic
Unsupported ==
    /\ pc = "parsed"
    /\ mode' = "other"
    /\ pc' = "panic"
    /\ UNCHANGED <<input, res, width, out, prev, round, gen>>

\* The minified text is the file of the next run.
Feed ==
    /\ pc = "printed"
    /\ mode = "minify"
    /\ round < MaxRounds
    /\ input' = out
    /\ prev' = out
    /\ round' = round + 1
    /\ gen' = [family |-> "fed"]
    /\ pc' = "start"
    /\ res' = Nil
    /\ mode' = Nil
    /\ width' = 0
    /\ out' = <<>>

Next == Parse \/ PrintAst \/ PrintPretty \/ PrintMinify \/ Unsupported \/ Feed

Spec == Init /\ [][Next]_vars

---------------------------------------------------------------------------
(* The grammar of RFC 8259, as the sets of positions at which a phrase     *)
(* that starts at position i of s can end (one past its last byte).        *)

RefWs(s, i) == { j \in i..(Len(s) + 1) : \A k \in i..(j - 1) : s[k] \in {32, 9, 10, 13} }

\* number = [ minus ] int [ frac ] [ exp ], as the automaton of the grammar:
\* the state after each byte, "no" once no number can follow.
RefNumberStep(q, c) ==
    LET digit == c >= 48 /\ c <= 57
    IN  CASE q = "start" -> IF c = 45 THEN "minus"
                            ELSE IF c = 48 THEN "zero"
                            ELSE IF digit THEN "int" ELSE "no"
          [] q = "minus" -> IF c = 48 THEN "zero" ELSE IF digit THEN "int" ELSE "no"
          [] q = "zero" -> IF c = 46 THEN "point"
                           ELSE IF c \in {101, 69} THEN "e" ELSE "no"
          [] q = "int" -> IF digit THEN "int"
                          ELSE IF c = 46 THEN "point"
                          ELSE IF c \in {101, 69} THEN "e" ELSE "no"
          [] q = "point" -> IF digit THEN "frac" ELSE "no"
          [] q = "frac" -> IF digit THEN "frac"
                           ELSE IF c \in {101, 69} THEN "e" ELSE "no"
          [] q = "e" -> IF c \in {43, 45} THEN "sign" ELSE IF digit THEN "exp" ELSE "no"
          [] q = "sign" -> IF digit THEN "exp" ELSE "no"
          [] q = "exp" -> IF digit THEN "exp" ELSE "no"

RefNumberAccepts(q) == q \in {"zero", "int", "frac", "exp"}

\* The ends of the numbers of s that start at i, the automaton being in
\* state q before position k.
RECURSIVE RefNumberEnds(_, _, _)
RefNumberEnds(s, k, q) ==
    (IF RefNumberAccepts(q) THEN {k} ELSE {})
    \cup (IF k > Len(s) \/ q = "no" THEN {}
          ELSE RefNumberEnds(s, k + 1, RefNumberStep(q, s[k])))

RefNumber(s, i) == RefNumberEnds(s, i, "start")

RefNumberText(x) == (Len(x) + 1) \in RefNumber(x, 1)

RefHex(c) == (c >= 48 /\ c <= 57) \/ (c >= 97 /\ c <= 102) \/ (c >= 65 /\ c <= 70)

\* *char from position i of b: unescaped bytes, two-character escapes, \uXXXX
RECURSIVE RefChars(_, _)
RefChars(b, i) ==
    IF i > Len(b) THEN TRUE
    ELSE IF b[i] = 92 THEN
        /\ i + 1 <= Len(b)
        /\ \/ b[i + 1] \in {34, 92, 47, 98, 102, 110, 114, 116} /\ RefChars(b, i + 2)
           \/ /\ b[i + 1] = 117
              /\ i + 5 <= Len(b)
              /\ \A k \in (i + 2)..(i + 5) : RefHex(b[k])
              /\ RefChars(b, i + 6)
    ELSE IF b[i] = 34 \/ b[i] <= 31 THEN FALSE
    ELSE IF b[i] < 128 THEN RefChars(b, i + 1)
    ELSE LET d == DecodeRune(SubSeq(b, i, Len(b)))
         IN  d.size > 1 /\ RefChars(b, i + d.size)

RefString(s, i) ==
    { j \in (i + 2)..(Len(s) + 1) :
        s[i] = 34 /\ s[j - 1] = 34 /\ RefChars(SubSeq(s, i + 1, j - 2), 1) }

RefLiteral(s, i) ==
    { i + Len(l) : l \in { x \in { Text(<<"t","r","u","e">>), Text(<<"f","a","l","s","e">>),
                                  Text(<<"n","u","l","l">>) } :
                           i + Len(x) - 1 <= Len(s) /\ SubSeq(s, i, i + Len(x) - 1) = x } }

RefAt(s, i, c) == i <= Len(s) /\ s[i] = c

RECURSIVE RefValue(_, _)
RECURSIVE RefElements(_, _)
RECURSIVE RefMembers(_, _)

\* value *( value-separator value ) end-array, the first value at i
RefElements(s, i) ==
    UNION { UNION { (IF RefAt(s, q, 93) THEN {q + 1} ELSE {})
                    \cup (IF RefAt(s, q, 44)
                          THEN UNION { RefElements(s, n) : n \in RefWs(s, q + 1) }
                          ELSE {})
                    : q \in RefWs(s, e) }
            : e \in RefValue(s, i) }

\* member *( value-separator member ) end-object, the first member at i
RefMembers(s, i) ==
    UNION { UNION { IF ~RefAt(s, c, 58) THEN {}
                    ELSE UNION { UNION { UNION {
                        (IF RefAt(s, q, 125) THEN {q + 1} ELSE {})
                        \cup (IF RefAt(s, q, 44)
                              THEN UNION { RefMembers(s, n) : n \in RefWs(s, q + 1) }
                              ELSE {})
                        : q \in RefWs(s, e) } : e \in RefValue(s, v) } : v \in RefWs(s, c + 1) }
                    : c \in RefWs(s, k) }
            : k \in RefString(s, i) }

RefValue(s, i) ==
    IF i > Len(s) THEN {}
    ELSE CASE s[i] = 91 ->
                  UNION { (IF RefAt(s, p, 93) THEN {p + 1} ELSE {}) \cup RefElements(s, p)
                          : p \in RefWs(s, i + 1) }
           [] s[i] = 123 ->
                  UNION { (IF RefAt(s, p, 125) THEN {p + 1} ELSE {}) \cup RefMembers(s, p)
                          : p \in RefWs(s, i + 1) }
           [] s[i] = 34 -> RefString(s, i)
           [] s[i] \in {116, 102, 110} -> RefLiteral(s, i)
           [] OTHER -> RefNumber(s, i)

\* JSON-text = ws value ws
IsJSONText(s) ==
    \E i \in RefWs(s, 1) : \E e \in RefValue(s, i) : (Len(s) + 1) \in RefWs(s, e)

\* The position in body b of the first quote that no backslash escapes
\* (a quote after an even run of backslashes), Len(b) + 1 when there is none.
RefEscaped(b, j) ==
    \E n \in 1..(j - 1) :
        /\ n % 2 = 1
        /\ \A k \in (j - n)..(j - 1) : b[k] = 92
        /\ (j - n = 1 \/ b[j - n - 1] # 92)

RefClose(b) ==
    LET closes == { j \in DOMAIN b : b[j] = 34 /\ ~RefEscaped(b, j) }
    IN  IF closes = {} THEN Len(b) + 1
        ELSE CHOOSE j \in closes : \A k \in closes : j <= k

Parsed == pc \in {"parsed", "printed", "panic"}

Decided == pc # "start"

---------------------------------------------------------------------------
(* The claims.                                                             *)

\* C1: every text of the RFC 8259 grammar parses without error into an
\* element, and the reader's offset is then the length of the text.
C1_ValidTextParses ==
    /\ pc = "failed" => ~IsJSONText(input)
    /\ Parsed =>
          \/ /\ ~res.err
             /\ res.el.kind \in objectKind..nullKind
             /\ res.r.offset = Len(input)
          \/ ~IsJSONText(input)

\* A nested text with tabs, carriage returns and line feeds at every place
\* whitespace may stand has been parsed.
C1_Witness ==
    /\ pc = "parsed"
    /\ gen.family = "tree"
    /\ gen.defect = "none"
    /\ gen.ws = <<9, 13, 10>>
    /\ gen.tree.kind = objectKind
    /\ Len(gen.tree.value) = 1
    /\ gen.tree.value[1].value.kind = arrayKind
    /\ Len(gen.tree.value[1].value.value) = 1
    /\ IsJSONText(input)
    /\ res.r.offset = Len(input)

\* Whether the text opens a string literal at its first byte that no
\* unescaped quote closes.
UnterminatedRootString(s) ==
    Len(s) >= 1 /\ s[1] = 34 /\ RefClose(Tail(s)) > Len(s) - 1

\* C2: a text whose root string literal is opened and never closed by an
\* unescaped quote is rejected, and yields no String element.
C2_UnterminatedStringRejected ==
    UnterminatedRootString(input) => ~Parsed

\* C3: the minified text of an accepted input is accepted again, and
\* minifies to itself.
C3_MinifyIdempotent ==
    round >= 1 =>
        /\ pc # "failed"
        /\ (pc = "printed" /\ mode = "minify") => out = prev

\* C4: a text with a comma before a closing bracket, with a comma before
\* the first member, or with two members and no comma between them, in an
\* object or in an array at any depth, is rejected.
C4_CommaRules ==
    (gen.family = "tree" /\ gen.defect \in Defects) => ~Parsed

\* An object text whose last member is followed by a comma, with blanks
\* around every token, has been rejected.
C4_Witness ==
    /\ pc = "failed"
    /\ gen.family = "tree"
    /\ gen.defect = "trailing"
    /\ gen.ws = <<32>>
    /\ gen.tree.kind = objectKind
    /\ Len(gen.tree.value) = 2

\* Whether every byte of s is one a JSON number can hold.
NumberBytes(s) == \A k \in DOMAIN s : s[k] \in {45, 43, 46, 101, 69} \cup 48..57

\* C5: a text of number bytes is accepted exactly when it is a number of
\* the JSON grammar, and the Number element then holds the text as it was
\* read; 01, 1. and 1e are rejected, -0 and 1.2e+3 are accepted.
C5_NumberGrammar ==
    /\ (Decided /\ NumberBytes(input)) =>
          /\ Parsed <=> RefNumberText(input)
          /\ Parsed => (res.el.kind = numberKind /\ res.el.value = input)
    /\ (Decided /\ input \in { Text(<<"0","1">>), Text(<<"1",".">>), Text(<<"1","e">>) })
          => pc = "failed"
    /\ (Decided /\ input \in { Text(<<"-","0">>), Text(<<"1",".","2","e","+","3">>) })
          => Parsed

\* 1.2e+3 has been parsed into the Number 1.2e+3.
C5_Witness ==
    /\ pc = "parsed"
    /\ input = Text(<<"1",".","2","e","+","3">>)
    /\ res.el.kind = numberKind
    /\ res.el.value = input

\* Whether no String payload and no key of the tree holds a control byte.
RECURSIVE NoControl(_)
NoControl(e) ==
    LET clean(x) == \A k \in DOMAIN x : x[k] > 31
    IN  CASE e.kind = stringKind -> clean(e.value)
          [] e.kind = arrayKind -> \A i \in DOMAIN e.value : NoControl(e.value[i])
          [] e.kind = objectKind ->
                 \A i \in DOMAIN e.value :
                     clean(e.value[i].key) /\ NoControl(e.value[i].value)
          [] OTHER -> TRUE

\* C6: no String payload and no key of a parsed tree holds a control
\* character; a root string literal with a control character before its
\* closing quote is rejected, escaped or not; and a String's payload is the
\* source bytes that follow the opening quote, escapes left as written.
C6_NoControlCharacters ==
    /\ Parsed => NoControl(res.el)
    /\ (Len(input) >= 1 /\ input[1] = 34
        /\ \E k \in 1..(RefClose(Tail(input)) - 1) :
               k < Len(input) /\ input[k + 1] <= 31)
          => ~Parsed
    /\ (Parsed /\ Len(input) >= 1 /\ input[1] = 34) =>
          /\ res.el.kind = stringKind
          /\ res.el.value = SubSeq(input, 2, Len(res.el.value) + 1)
          /\ ~UnterminatedRootString(input) =>
                 Len(res.el.value) = RefClose(Tail(input)) - 1
    /\ (Parsed /\ input = Text(<<"{","q","a","q",":"," ","q","b","\\","q","c","q","}">>))
          => res.el.value[1].value.value = Text(<<"b","\\","q","c">>)

\* A closed string literal holding a backslash followed by a line feed has
\* been rejected.
C6_Witness ==
    /\ pc = "failed"
    /\ input = <<34, 92, 10, 34>>

\* C7: parse succeeds only on a text that is one JSON value with optional
\* whitespace around it.
C7_OnlyOneValue ==
    Parsed => IsJSONText(input)

\* The text of a scalar element.
RefScalar(e) ==
    CASE e.kind = stringKind -> <<34>> \o e.value \o <<34>>
      [] e.kind = numberKind -> e.value
      [] e.kind = booleanKind -> formatBool(e.value)
      [] e.kind = nullKind -> Text(<<"n","u","l","l">>)

\* ls with x added to the end of its last line.
RefAddToLast(ls, x) == [ls EXCEPT ![Len(ls)] = ls[Len(ls)] \o x]

\* The lines of element e, a container at depth d, printed with n spaces
\* per level; the first line comes without what precedes the element on it.
RECURSIVE RefLines(_, _, _)
RECURSIVE RefChildLines(_, _, _, _)

\* The lines of the children of e from the i-th on: each child starts a
\* line after (d+1)*n spaces, an object's member with its key, a colon and
\* a space before the value; a comma ends every child but the last.
RefChildLines(e, i, d, n) ==
    IF i > Len(e.value) THEN <<>>
    ELSE LET ls == RefLines(Child(e, i), d + 1, n)
             key == IF e.kind = objectKind
                    THEN <<34>> \o e.value[i].key \o <<34, 58, 32>>
                    ELSE <<>>
             first == Repeat(32, (d + 1) * n) \o key \o ls[1]
             lines == <<first>> \o Tail(ls)
         IN  (IF i < Len(e.value) THEN RefAddToLast(lines, <<44>>) ELSE lines)
             \o RefChildLines(e, i + 1, d, n)

RefLines(e, d, n) ==
    IF ~IsContainer(e) THEN << RefScalar(e) >>
    ELSE LET open == IF e.kind = objectKind THEN 123 ELSE 91
             close == IF e.kind = objectKind THEN 125 ELSE 93
         IN  IF Len(e.value) = 0 THEN << <<open, close>> >>
             ELSE << <<open>> >> \o RefChildLines(e, 1, d, n)
                  \o << Repeat(32, d * n) \o <<close>> >>

\* The lines joined by line feeds, none after the last.
RECURSIVE RefJoin(_)
RefJoin(ls) ==
    IF Len(ls) = 1 THEN ls[1] ELSE ls[1] \o <<10>> \o RefJoin(Tail(ls))

\* C8: pretty(tree, n) is the layout of the lines above: {} and [] on one
\* line; a non-empty container opens, has one child per line after (d+1)*n
\* spaces with a comma after each but the last, and closes on a line of its
\* own after d*n spaces; a member's value starts on the line of its key.
\* pretty(parse("[1,2,3]"), 2) is the five lines of the documentation.
C8_PrettyLayout ==
    (pc = "printed" /\ mode = "pretty") =>
        /\ out = RefJoin(RefLines(res.el, 0, width))
        /\ (input = Text(<<"[","1",",","2",",","3","]">>) /\ width = 2) =>
               out = Text(<<"[","LF"," "," ","1",",","LF"," "," ","2",",","LF",
                            " "," ","3","LF","]">>)
        /\ (res.el.kind = arrayKind /\ Len(res.el.value) = 0) => out = <<91, 93>>
        /\ (res.el.kind = objectKind /\ Len(res.el.value) = 0) => out = <<123, 125>>

\* An object whose member is a non-empty array has been printed with two
\* spaces per level.
C8_Witness ==
    /\ pc = "printed"
    /\ mode = "pretty"
    /\ width = 2
    /\ res.el.kind = objectKind
    /\ Len(res.el.value) = 1
    /\ res.el.value[1].value.kind = arrayKind
    /\ Len(res.el.value[1].value.value) = 1
    /\ res.el.value[1].value.value[1].kind = numberKind
    /\ out = Text(<<"{","LF"," "," ","q","a","q",":"," ","[","LF"," "," "," "," ","1","LF",
                    " "," ","]","LF","}">>)

\* C9: the tree parsed from the text of a tree is that tree, members and
\* elements in the order of the text and equal keys kept apart, and minify
\* prints them in that order with one comma between two and none at the
\* end; {"a":1,"a":2} gives two pairs, value 1 then value 2.
C9_OrderAndDuplicatesKept ==
    /\ (Parsed /\ gen.family = "tree" /\ gen.defect = "none") =>
          /\ res.el = gen.tree
          /\ (pc = "printed" /\ mode = "minify") => out = Canonical(gen.tree)
    /\ (Parsed /\ input = Text(<<"{","q","a","q",":","1",",","q","a","q",":","2","}">>)) =>
          /\ res.el.kind = objectKind
          /\ res.el.value = << Pair(<<97>>, Element(numberKind, <<49>>)),
                               Pair(<<97>>, Element(numberKind, <<50>>)) >>
          /\ (pc = "printed" /\ mode = "minify") => out = input

\* An object with the key a twice, before two different values, has been
\* parsed from a text with whitespace and minified.
C9_Witness ==
    /\ pc = "printed"
    /\ mode = "minify"
    /\ gen.family = "tree"
    /\ gen.defect = "none"
    /\ gen.ws = <<32>>
    /\ res.el.kind = objectKind
    /\ Len(res.el.value) = 2
    /\ res.el.value[1].key = <<97>>
    /\ res.el.value[2].key = <<97>>
    /\ res.el.value[1].value.kind = booleanKind
    /\ res.el.value[2].value.kind = nullKind
    /\ out = Text(<<"{","q","a","q",":","t","r","u","e",",","q","a","q",":","n","u","l","l","}">>)

\* The element e and every element below it.
RECURSIVE Subtrees(_)
Subtrees(e) ==
    {e} \cup (IF IsContainer(e)
              THEN UNION { Subtrees(Child(e, i)) : i \in DOMAIN e.value }
              ELSE {})

\* C10: the walk of astToString leaves the indent counter as it found it,
\* for every subtree of the tree that was dumped.
C10_IndentBalanced ==
    (pc = "printed" /\ mode = "ast") =>
        \A e \in Subtrees(res.el) :
            astToString_walk(e, [sb |-> <<>>, indent |-> 0]).indent = 0

===========================================================================
